---- MODULE Spec2Model ----
(***************************************************************************)
(* The recursive crawler of src/scrape/scraper.py: scrape_psut_all_links   *)
(* and its closure crawl_page, as a state machine over an explicit call    *)
(* stack.  The page fetcher (crawler.arun) is an external collaborator:    *)
(* every outcome it can give (an exception, a failure, content of some     *)
(* length, any list of links) is a nondeterministic choice.                *)
(***************************************************************************)
EXTENDS Integers, Sequences, FiniteSets, TLC

VARIABLES
    site,           \* the hrefs the pages of the crawled site contain
    site_links,     \* per page of a fixed site: result.links["internal"]
    visited_urls,   \* the set visited_urls (line 10)
    scraped_data,   \* the list scraped_data (line 11)
    stacks,         \* per task: the stack of crawl_page frames, innermost last
    phase,          \* scrape_psut_all_links: "crawl" (line 71), "save", "done"
    summary,        \* the dict summary (lines 91-95), once computed
    page_i,         \* the index i of the loop of line 82
    written,        \* history: the files opened for writing, in order
    markdown_text,  \* clean_content: its argument (line 109)
    cleaned,        \* clean_content: the local cleaned (lines 112-124)
    applied,        \* history: the substitutions applied to cleaned, in order
    claim_log,      \* history: the executions of visited_urls.add (line 25)
    fetch_log,      \* history: the invocations of crawler.arun (line 29)
    raised,         \* history: the URLs whose crawler.arun raised
    rejected,       \* history: the URLs fetched without usable content
    on_cycle,       \* history: URLs of link cycles the traversal has closed
    last_io         \* history: "none", "fetching", "fetched" or "slept"

vars == <<site, site_links, visited_urls, scraped_data, stacks, phase,
          summary, page_i, written, markdown_text, cleaned, applied, claim_log,
          fetch_log, raised, rejected, on_cycle, last_io>>

\* the variables no step of crawl_page changes
outside_crawl == <<site_links, page_i, written, markdown_text, cleaned, applied>>

(***************************************************************************)
(* Limits.  The source fixes max_pages = 3000 (line 12) and the depth cap  *)
(* 10 (line 15); the model keeps the comparisons and scales the two values *)
(* down so that both caps are reached inside the URL universe below.       *)
(***************************************************************************)
max_pages == 4
max_depth == 2
min_length == 100

\* Bounds of the model: the links read from one page, the concurrent tasks of
\* SpecTasks, the records of the lists SpecSummary summarises, the characters
\* of the texts SpecClean cleans.
MaxLinks == 2
NumTasks == 2
MaxRecords == 3
MaxText == 5

(***************************************************************************)
(* URLs and hrefs.  A URL is kept in its parts so that urljoin and the     *)
(* substring tests of line 22 are computed, not assumed.                   *)
(***************************************************************************)
Url(scheme, host, path, query) ==
    [scheme |-> scheme, host |-> host, path |-> path, query |-> query]

base_url == Url("https", "www.psut.edu.jo", <<"ar">>, "")

NoUrl == Url("", "", <<>>, "")

Href(kind, host, path, query) ==
    [kind |-> kind, host |-> host, path |-> path, query |-> query]

\* "/ar", "/ar/a", "/ar/c": root-relative hrefs
hRoot == Href("root", "", <<"ar">>, "")
hA == Href("root", "", <<"ar", "a">>, "")
hC == Href("root", "", <<"ar", "c">>, "")
\* "https://www.psut.edu.jo/ar/b": an absolute href
hB == Href("abs", "www.psut.edu.jo", <<"ar", "b">>, "")
\* "a": a href relative to the page, resolved against base_url to ".../a"
hRel == Href("rel", "", <<"a">>, "")
\* "https://evil.com/ar?ref=psut.edu.jo": another host, the domain in the query
hEvil == Href("abs", "evil.com", <<"ar">>, "ref=psut.edu.jo")
\* "", "javascript:void(0)", "http://[::1"
hEmpty == Href("empty", "", <<>>, "")
hScript == Href("script", "", <<>>, "")
hBad == Href("bad", "", <<>>, "")

Hrefs == {hRoot, hA, hB, hC, hRel, hEvil, hEmpty, hScript, hBad}

\* the smaller site of LiveSpec: four pages that can link in cycles
LiveHrefs == {hRoot, hA, hB, hC, hEmpty, hScript, hBad}

\* the smaller site the concurrent tasks of SpecTasks crawl
TaskHrefs == {hA, hB, hEmpty, hRel, hBad}

\* urllib.parse.urljoin(base, href) where it returns
urljoin(base, href) ==
    CASE href.kind = "abs" -> Url("https", href.host, href.path, href.query)
      [] href.kind = "root" -> Url(base.scheme, base.host, href.path, href.query)
      [] href.kind = "rel" ->
            Url(base.scheme, base.host,
                SubSeq(base.path, 1, Len(base.path) - 1) \o href.path, href.query)
      [] href.kind = "script" -> Url("javascript", "", <<"void(0)">>, "")
      [] OTHER -> base

\* urljoin raises ValueError (urlsplit: "Invalid IPv6 URL")
urljoin_raises(href) == href.kind = "bad"

\* the parts of the universe's URLs in which the text "psut.edu.jo" occurs
HasDomain(part) == part \in {"www.psut.edu.jo", "ref=psut.edu.jo"}

\* "psut.edu.jo" in url (line 22): anywhere in the URL's text
ContainsDomain(url) ==
    \/ HasDomain(url.host)
    \/ \E i \in DOMAIN url.path : HasDomain(url.path[i])
    \/ HasDomain(url.query)

\* "/ar" in url (line 22): a path segment that begins with "ar"
ContainsAr(url) == \E i \in DOMAIN url.path : url.path[i] = "ar"

\* line 22 lost: every URL passes
InScope_Always(url) == TRUE

\* line 22, negated: the URL passes the scope filter
InScope(url) == ContainsDomain(url) /\ ContainsAr(url)

\* line 15 without its page-cap test
LimitReached_NoPageCap(depth, visited) == depth > max_depth

\* line 15 without its depth test
LimitReached_NoDepthCap(depth, visited) == Cardinality(visited) >= max_pages

\* line 15 with >= for >: the deepest allowed level is turned away
LimitReached_DepthEarly(depth, visited) ==
    depth >= max_depth \/ Cardinality(visited) >= max_pages

\* line 15: depth > 10 or len(visited_urls) >= max_pages
LimitReached(depth, visited) ==
    depth > max_depth \/ Cardinality(visited) >= max_pages

\* line 18: url in visited_urls
AlreadyVisited(url, visited) == url \in visited

\* line 25 with the insertion lost
Claimed_NoInsert(visited, url) == visited

\* line 25: visited_urls.add(url)
Claimed(visited, url) == visited \cup {url}

(***************************************************************************)
(* The fetcher's results.  result.markdown is kept as its length and the   *)
(* length clean_content leaves of it (lines 37, 109-126).                  *)
(***************************************************************************)
Markdown(raw, clean) == [raw |-> raw, clean |-> clean]

Markdowns == {Markdown(0, 0), Markdown(150, 100), Markdown(150, 101)}

FetchResults == [success : BOOLEAN, markdown : Markdowns]

\* line 36: result.success and result.markdown
HasContent(result) == result.success /\ result.markdown.raw > 0

\* line 39 with the length test lost
LongEnough_Always(result) == TRUE

\* line 39: len(cleaned_content.strip()) > 100
LongEnough(result) == result.markdown.clean > min_length

\* lines 40-44: page_data
PageData(url, result, depth) ==
    [url |-> url, content |-> result.markdown.clean, depth |-> depth]

(***************************************************************************)
(* Frames of crawl_page.  pc: "call" (entered, before line 15), "claimed"  *)
(* (the URL added, line 25, arun not yet invoked), "fetch" (awaiting arun, *)
(* line 29), "expand" (in the loop of line 53), "sleep" (awaiting          *)
(* asyncio.sleep, line 62), "await" (awaiting the recursive call, line     *)
(* 63), "except" (in the handler of line 67, entered from the loop).  n    *)
(* counts the links the loop has read; the fetcher's link list is read one *)
(* element at a time, each element any href of the universe.               *)
(***************************************************************************)
Frame(url, depth) ==
    [url |-> url, depth |-> depth, pc |-> "call", n |-> 0, link |-> NoUrl]

Tasks == DOMAIN stacks

Running(t) == stacks[t] # <<>>

Top(t) == stacks[t][Len(stacks[t])]

SetTop(stk, frame) == [stk EXCEPT ![Len(stk)] = frame]

\* crawl_page returns: its frame is popped and the caller's await (line 63) ends
Return(stk) ==
    LET rest == SubSeq(stk, 1, Len(stk) - 1)
    IN  IF rest = <<>> THEN rest
        ELSE [rest EXCEPT ![Len(rest)].pc = "expand"]

\* line 63 with the depth passed on as it is
Call_SameDepth(stk) ==
    LET f == stk[Len(stk)]
    IN  Append(SetTop(stk, [f EXCEPT !.pc = "await", !.link = NoUrl]),
               Frame(f.link, f.depth))

\* line 63: crawl_page(crawler, full_url, depth + 1)
Call(stk) ==
    LET f == stk[Len(stk)]
    IN  Append(SetTop(stk, [f EXCEPT !.pc = "await", !.link = NoUrl]),
               Frame(f.link, f.depth + 1))

\* line 62 lost: the recursive call is made without the sleep
Suspend_NoSleep(stk, full_url) ==
    Call(SetTop(stk, [stk[Len(stk)] EXCEPT !.link = full_url, !.n = @ + 1]))

\* line 62: the caller suspends in asyncio.sleep before the recursive call
Suspend(stk, full_url) ==
    SetTop(stk, [stk[Len(stk)] EXCEPT !.pc = "sleep", !.link = full_url,
                                      !.n = @ + 1])

\* the page whose link loop called the innermost frame (NoUrl for a root call)
Parent(stk) == IF Len(stk) > 1 THEN stk[Len(stk) - 1].url ELSE NoUrl

\* an entry of claim_log and fetch_log: which call, by which task, from where
LogEntry(stk, t) ==
    [url |-> stk[Len(stk)].url, task |-> t, depth |-> stk[Len(stk)].depth,
     parent |-> Parent(stk)]

\* the URLs of the frames from the one visiting url up to the innermost
CycleThrough(stk, url) ==
    IF \E i \in DOMAIN stk : stk[i].url = url
    THEN LET i == CHOOSE i \in DOMAIN stk : stk[i].url = url
         IN  {stk[j].url : j \in i..Len(stk)}
    ELSE {}

\* no fixed site: every link read is any href of `site`
NoSite == [page \in {} |-> <<>>]

\* the fetcher's link list for url is fixed
Listed(url) == \E page \in DOMAIN site_links : page = url

\* lines 51-53: the hrefs the next element of internal_links can be
NextHrefs(frame) ==
    IF ~Listed(frame.url) THEN site
    ELSE IF frame.n < Len(site_links[frame.url])
         THEN {site_links[frame.url][frame.n + 1]}
         ELSE {}

\* line 53: internal_links can be exhausted
NoMoreLinks(frame) ==
    Listed(frame.url) => frame.n >= Len(site_links[frame.url])

NoSummary == [total_pages |-> 0, urls |-> <<>>, total_characters |-> 0]

Init ==
    /\ site = Hrefs
    /\ site_links = NoSite
    /\ visited_urls = {}
    /\ scraped_data = <<>>
    /\ stacks = [t \in {1} |-> <<Frame(base_url, 0)>>]
    /\ phase = "crawl"
    /\ summary = NoSummary
    /\ page_i = 0
    /\ written = <<>>
    /\ markdown_text = <<>>
    /\ cleaned = <<>>
    /\ applied = <<>>
    /\ claim_log = <<>>
    /\ fetch_log = <<>>
    /\ raised = {}
    /\ rejected = {}
    /\ on_cycle = {}
    /\ last_io = "none"

\* lines 15-16 with the URL marked visited before the return
ReturnLimit_Marks(t) ==
    /\ Running(t) /\ Top(t).pc = "call"
    /\ LimitReached(Top(t).depth, visited_urls)
    /\ visited_urls' = Claimed(visited_urls, Top(t).url)
    /\ stacks' = [stacks EXCEPT ![t] = Return(@)]
    /\ UNCHANGED outside_crawl
    /\ UNCHANGED <<site, scraped_data, phase, summary, claim_log, fetch_log,
                   raised, rejected, on_cycle, last_io>>

\* lines 15-16
ReturnLimit(t) ==
    /\ Running(t) /\ Top(t).pc = "call"
    /\ LimitReached(Top(t).depth, visited_urls)
    /\ stacks' = [stacks EXCEPT ![t] = Return(@)]
    /\ UNCHANGED outside_crawl
    /\ UNCHANGED <<site, visited_urls, scraped_data, phase, summary, claim_log,
                   fetch_log, raised, rejected, on_cycle, last_io>>

\* lines 18-23: the URL is already visited, or fails the scope filter
ReturnSkip(t) ==
    /\ Running(t) /\ Top(t).pc = "call"
    /\ ~LimitReached(Top(t).depth, visited_urls)
    /\ AlreadyVisited(Top(t).url, visited_urls) \/ ~InScope(Top(t).url)
    /\ stacks' = [stacks EXCEPT ![t] = Return(@)]
    /\ UNCHANGED outside_crawl
    /\ UNCHANGED <<site, visited_urls, scraped_data, phase, summary, claim_log,
                   fetch_log, raised, rejected, on_cycle, last_io>>

\* lines 15-26 with every guard passed: the URL is added to visited_urls
Claim(t) ==
    /\ Running(t) /\ Top(t).pc = "call"
    /\ ~LimitReached(Top(t).depth, visited_urls)
    /\ ~AlreadyVisited(Top(t).url, visited_urls)
    /\ InScope(Top(t).url)
    /\ visited_urls' = Claimed(visited_urls, Top(t).url)
    /\ claim_log' = Append(claim_log, LogEntry(stacks[t], t))
    /\ stacks' = [stacks EXCEPT ![t] = SetTop(@, [Top(t) EXCEPT !.pc = "claimed"])]
    /\ UNCHANGED outside_crawl
    /\ UNCHANGED <<site, scraped_data, phase, summary, fetch_log, raised, rejected,
                   on_cycle, last_io>>

\* lines 28-34: crawler.arun is invoked and awaited
Invoke(t) ==
    /\ Running(t) /\ Top(t).pc = "claimed"
    /\ fetch_log' = Append(fetch_log, LogEntry(stacks[t], t))
    /\ last_io' = "fetching"
    /\ stacks' = [stacks EXCEPT ![t] = SetTop(@, [Top(t) EXCEPT !.pc = "fetch"])]
    /\ UNCHANGED outside_crawl
    /\ UNCHANGED <<site, visited_urls, scraped_data, phase, summary, claim_log,
                   raised, rejected, on_cycle>>

\* no handler: the exception unwinds every frame of the task
AfterRaise_Unwind(stk) == <<>>

\* lines 67-68: the handler logs the exception and crawl_page returns normally
AfterRaise(stk) == Return(stk)

\* lines 29, 67-68: arun raises
FetchRaises(t) ==
    /\ Running(t) /\ Top(t).pc = "fetch"
    /\ raised' = raised \cup {Top(t).url}
    /\ last_io' = "fetched"
    /\ stacks' = [stacks EXCEPT ![t] = AfterRaise(@)]
    /\ UNCHANGED outside_crawl
    /\ UNCHANGED <<site, visited_urls, scraped_data, phase, summary, claim_log,
                   fetch_log, rejected, on_cycle>>

\* lines 36, 64-65: success is false or the markdown is empty
FetchNoContent(t) ==
    /\ Running(t) /\ Top(t).pc = "fetch"
    /\ \E result \in FetchResults : ~HasContent(result)
    /\ rejected' = rejected \cup {Top(t).url}
    /\ last_io' = "fetched"
    /\ stacks' = [stacks EXCEPT ![t] = Return(@)]
    /\ UNCHANGED outside_crawl
    /\ UNCHANGED <<site, visited_urls, scraped_data, phase, summary, claim_log,
                   fetch_log, raised, on_cycle>>

\* lines 36-39: content, but not more than 100 characters of it
FetchShort(t) ==
    /\ Running(t) /\ Top(t).pc = "fetch"
    /\ \E result \in FetchResults : HasContent(result) /\ ~LongEnough(result)
    /\ rejected' = rejected \cup {Top(t).url}
    /\ last_io' = "fetched"
    /\ stacks' = [stacks EXCEPT ![t] = Return(@)]
    /\ UNCHANGED outside_crawl
    /\ UNCHANGED <<site, visited_urls, scraped_data, phase, summary, claim_log,
                   fetch_log, raised, on_cycle>>

\* lines 36-51: the page is accepted, its record appended, the link loop entered
FetchAccepted(t) ==
    /\ Running(t) /\ Top(t).pc = "fetch"
    /\ \E result \in FetchResults :
         /\ HasContent(result) /\ LongEnough(result)
         /\ scraped_data' = Append(scraped_data,
                                   PageData(Top(t).url, result, Top(t).depth))
    /\ last_io' = "fetched"
    /\ stacks' = [stacks EXCEPT ![t] = SetTop(@, [Top(t) EXCEPT !.pc = "expand"])]
    /\ UNCHANGED outside_crawl
    /\ UNCHANGED <<site, visited_urls, phase, summary, claim_log, fetch_log,
                   raised, rejected, on_cycle>>

\* lines 53-61: the next link is empty (line 59) or already visited (line 61)
ExpandSkip(t) ==
    /\ Running(t) /\ Top(t).pc = "expand" /\ Top(t).n < MaxLinks
    /\ \E h \in NextHrefs(Top(t)) :
         /\ ~urljoin_raises(h)
         /\ h.kind = "empty" \/ urljoin(base_url, h) \in visited_urls
         /\ on_cycle' = IF h.kind = "empty" THEN on_cycle
                        ELSE on_cycle \cup
                             CycleThrough(stacks[t], urljoin(base_url, h))
    /\ stacks' = [stacks EXCEPT ![t] = SetTop(@, [Top(t) EXCEPT !.n = @ + 1])]
    /\ UNCHANGED outside_crawl
    /\ UNCHANGED <<site, visited_urls, scraped_data, phase, summary, claim_log,
                   fetch_log, raised, rejected, last_io>>

\* lines 60, 67: urljoin raises on the link read; the handler is entered
ExpandRaises(t) ==
    /\ Running(t) /\ Top(t).pc = "expand" /\ Top(t).n < MaxLinks
    /\ \E h \in NextHrefs(Top(t)) : urljoin_raises(h)
    /\ stacks' = [stacks EXCEPT
                     ![t] = SetTop(@, [Top(t) EXCEPT !.pc = "except", !.n = @ + 1])]
    /\ UNCHANGED outside_crawl
    /\ UNCHANGED <<site, visited_urls, scraped_data, phase, summary, claim_log,
                   fetch_log, raised, rejected, on_cycle, last_io>>

\* line 68: the handler prints the error; crawl_page returns, the loop left
ExceptReturn(t) ==
    /\ Running(t) /\ Top(t).pc = "except"
    /\ stacks' = [stacks EXCEPT ![t] = Return(@)]
    /\ UNCHANGED outside_crawl
    /\ UNCHANGED <<site, visited_urls, scraped_data, phase, summary, claim_log,
                   fetch_log, raised, rejected, on_cycle, last_io>>

\* lines 60-62: a link not yet visited; the task sleeps before visiting it
ExpandSleep(t) ==
    /\ Running(t) /\ Top(t).pc = "expand" /\ Top(t).n < MaxLinks
    /\ \E h \in NextHrefs(Top(t)) :
         /\ h.kind # "empty" /\ ~urljoin_raises(h)
         /\ urljoin(base_url, h) \notin visited_urls
         /\ on_cycle' = on_cycle \cup
                         CycleThrough(stacks[t], urljoin(base_url, h))
         /\ stacks' = [stacks EXCEPT ![t] = Suspend(@, urljoin(base_url, h))]
    /\ UNCHANGED outside_crawl
    /\ UNCHANGED <<site, visited_urls, scraped_data, phase, summary, claim_log,
                   fetch_log, raised, rejected, last_io>>

\* lines 62-63: the sleep is over, crawl_page is called for the link
SleepDone(t) ==
    /\ Running(t) /\ Top(t).pc = "sleep"
    /\ last_io' = IF last_io = "fetched" THEN "slept" ELSE last_io
    /\ stacks' = [stacks EXCEPT ![t] = Call(@)]
    /\ UNCHANGED outside_crawl
    /\ UNCHANGED <<site, visited_urls, scraped_data, phase, summary, claim_log,
                   fetch_log, raised, rejected, on_cycle>>

\* line 53: the loop has no more links (or line 50 found none); crawl_page returns
ExpandEnd(t) ==
    /\ Running(t) /\ Top(t).pc = "expand"
    /\ NoMoreLinks(Top(t))
    /\ stacks' = [stacks EXCEPT ![t] = Return(@)]
    /\ UNCHANGED outside_crawl
    /\ UNCHANGED <<site, visited_urls, scraped_data, phase, summary, claim_log,
                   fetch_log, raised, rejected, on_cycle, last_io>>

RECURSIVE SumContent_SkipLast(_)
\* line 94 with the last record left out of the sum
SumContent_SkipLast(records) ==
    IF Len(records) <= 1 THEN 0
    ELSE Head(records).content + SumContent_SkipLast(Tail(records))

RECURSIVE SumContent(_)
\* line 94: sum(len(page['content']) for page in scraped_data)
SumContent(records) ==
    IF records = <<>> THEN 0
    ELSE Head(records).content + SumContent(Tail(records))

\* line 93: [page['url'] for page in scraped_data]
UrlsOf(records) == [i \in DOMAIN records |-> records[i].url]

\* lines 91-95
Summarize(records) ==
    [total_pages |-> Len(records),
     urls |-> UrlsOf(records),
     total_characters |-> SumContent(records)]

\* line 71 with the await lost: the code after it runs at any time
TraversalOver_Always == TRUE

\* lines 70-71: the root call of crawl_page has returned
TraversalOver == \A t \in Tasks : ~Running(t)

\* the files of the directory scraped_data: lines 78, 83-84 and 97
JsonFile == [name |-> "psut_all_content.json", i |-> 0]
PageFile(i) == [name |-> "page.txt", i |-> i]
SummaryFile == [name |-> "scraping_summary.json", i |-> 0]

\* lines 71-79: the root call has returned; the record list is dumped
WriteJson ==
    /\ phase = "crawl"
    /\ TraversalOver
    /\ phase' = "save"
    /\ written' = Append(written, JsonFile)
    /\ UNCHANGED <<site_links, markdown_text, cleaned, applied>>
    /\ UNCHANGED <<site, visited_urls, scraped_data, stacks, summary, page_i,
                   claim_log, fetch_log, raised, rejected, on_cycle, last_io>>

\* lines 82-88: one iteration of the loop, the file of record i is written
WritePage ==
    /\ phase = "save"
    /\ page_i < Len(scraped_data)
    /\ written' = Append(written, PageFile(page_i))
    /\ page_i' = page_i + 1
    /\ UNCHANGED <<site_links, markdown_text, cleaned, applied>>
    /\ UNCHANGED <<site, visited_urls, scraped_data, stacks, phase, summary,
                   claim_log, fetch_log, raised, rejected, on_cycle, last_io>>

\* lines 82, 91-107: the loop is over; the summary is computed and written
Output ==
    /\ phase = "save"
    /\ page_i >= Len(scraped_data)
    /\ phase' = "done"
    /\ summary' = Summarize(scraped_data)
    /\ written' = Append(written, SummaryFile)
    /\ UNCHANGED <<site_links, markdown_text, cleaned, applied>>
    /\ UNCHANGED <<site, visited_urls, scraped_data, stacks, page_i, claim_log,
                   fetch_log, raised, rejected, on_cycle, last_io>>

Next ==
    \/ \E t \in Tasks : ReturnLimit(t)
    \/ \E t \in Tasks : ReturnSkip(t)
    \/ \E t \in Tasks : Claim(t)
    \/ \E t \in Tasks : Invoke(t)
    \/ \E t \in Tasks : FetchRaises(t)
    \/ \E t \in Tasks : FetchNoContent(t)
    \/ \E t \in Tasks : FetchShort(t)
    \/ \E t \in Tasks : FetchAccepted(t)
    \/ \E t \in Tasks : ExpandSkip(t)
    \/ \E t \in Tasks : ExpandRaises(t)
    \/ \E t \in Tasks : ExceptReturn(t)
    \/ \E t \in Tasks : ExpandSleep(t)
    \/ \E t \in Tasks : SleepDone(t)
    \/ \E t \in Tasks : ExpandEnd(t)
    \/ WriteJson
    \/ WritePage
    \/ Output

\* scrape_psut_all_links as written: one root call, crawl_page(crawler, base_url)
Spec == Init /\ [][Next]_vars

InitLive ==
    /\ site = LiveHrefs
    /\ site_links = NoSite
    /\ visited_urls = {}
    /\ scraped_data = <<>>
    /\ stacks = [t \in {1} |-> <<Frame(base_url, 0)>>]
    /\ phase = "crawl"
    /\ summary = NoSummary
    /\ page_i = 0
    /\ written = <<>>
    /\ markdown_text = <<>>
    /\ cleaned = <<>>
    /\ applied = <<>>
    /\ claim_log = <<>>
    /\ fetch_log = <<>>
    /\ raised = {}
    /\ rejected = {}
    /\ on_cycle = {}
    /\ last_io = "none"

\* the same run under fairness: every arun and every sleep returns, and the
\* event loop runs the task whenever it is ready
LiveSpec == InitLive /\ [][Next]_vars /\ WF_vars(Next)

(***************************************************************************)
(* crawl_page started NumTasks times as cooperative tasks with the same    *)
(* URL.  A task runs from one await to the next without interruption, so   *)
(* the guards and the insertion (lines 15-25) are one step.                *)
(***************************************************************************)
InitTasks ==
    /\ site = TaskHrefs
    /\ site_links = NoSite
    /\ visited_urls = {}
    /\ scraped_data = <<>>
    /\ stacks = [t \in 1..NumTasks |-> <<Frame(base_url, 0)>>]
    /\ phase = "crawl"
    /\ summary = NoSummary
    /\ page_i = 0
    /\ written = <<>>
    /\ markdown_text = <<>>
    /\ cleaned = <<>>
    /\ applied = <<>>
    /\ claim_log = <<>>
    /\ fetch_log = <<>>
    /\ raised = {}
    /\ rejected = {}
    /\ on_cycle = {}
    /\ last_io = "none"

SpecTasks == InitTasks /\ [][Next]_vars

(***************************************************************************)
(* The summary of lines 91-95 as a function of the record list: every list *)
(* of at most MaxRecords records is a start state.                         *)
(***************************************************************************)
Records ==
    [url : {base_url, urljoin(base_url, hA)}, content : {30, 120, 5000},
     depth : {0}]

RecordLists == UNION {[1..n -> Records] : n \in 0..MaxRecords}

InitSummary ==
    /\ site = {}
    /\ site_links = NoSite
    /\ visited_urls = {}
    /\ scraped_data \in RecordLists
    /\ stacks = [t \in {1} |-> <<>>]
    /\ phase = "crawl"
    /\ summary = NoSummary
    /\ page_i = 0
    /\ written = <<>>
    /\ markdown_text = <<>>
    /\ cleaned = <<>>
    /\ applied = <<>>
    /\ claim_log = <<>>
    /\ fetch_log = <<>>
    /\ raised = {}
    /\ rejected = {}
    /\ on_cycle = {}
    /\ last_io = "none"

\* lines 74-98, the part of scrape_psut_all_links after the traversal
NextSummary ==
    \/ WriteJson
    \/ WritePage
    \/ Output

SpecSummary == InitSummary /\ [][NextSummary]_vars

(***************************************************************************)
(* clean_content (lines 109-126).  A text is a sequence of characters; the *)
(* two substitutions that collapse runs (lines 112 and 124) are computed   *)
(* the way re.sub does: left to right, each match the longest run that     *)
(* starts where the scan stands.                                           *)
(***************************************************************************)
Chars == {"\n", " ", "x"}

Texts == UNION {[1..n -> Chars] : n \in 0..MaxText}

RECURSIVE RunLength(_, _, _)
\* how many characters ch follow each other in text from position k on
RunLength(text, k, ch) ==
    IF k > Len(text) \/ text[k] # ch THEN 0
    ELSE 1 + RunLength(text, k + 1, ch)

RECURSIVE re_sub_Exact(_, _, _, _, _)
\* the pattern without its open upper bound: ch{least} matches least
\* characters of a run, and the scan goes on behind them
re_sub_Exact(ch, least, repl, text, k) ==
    IF k > Len(text) THEN <<>>
    ELSE IF RunLength(text, k, ch) >= least
         THEN repl \o re_sub_Exact(ch, least, repl, text, k + least)
         ELSE <<text[k]>> \o re_sub_Exact(ch, least, repl, text, k + 1)

RECURSIVE re_sub(_, _, _, _, _)
\* re.sub(ch{least,}, repl, text) from position k on: a run of at least
\* `least` characters ch is matched whole (the quantifier is greedy) and
\* replaced by repl; any other character is copied
re_sub(ch, least, repl, text, k) ==
    IF k > Len(text) THEN <<>>
    ELSE IF RunLength(text, k, ch) >= least
         THEN repl \o re_sub(ch, least, repl, text, k + RunLength(text, k, ch))
         ELSE <<text[k]>> \o re_sub(ch, least, repl, text, k + 1)

\* line 112: re.sub(r'\n{3,}', '\n\n', markdown_text)
CollapseNewlines(text) == re_sub("\n", 3, <<"\n", "\n">>, text, 1)

\* line 124: re.sub(r' +', ' ', cleaned)
CollapseSpaces(text) == re_sub(" ", 1, <<" ">>, text, 1)

Rules == {"newlines", "spaces"}

Rule(name, text) ==
    IF name = "newlines" THEN CollapseNewlines(text) ELSE CollapseSpaces(text)

\* how often the substitution `name` has been applied
Applications(name) == Cardinality({k \in DOMAIN applied : applied[k] = name})

InitClean ==
    /\ site = {}
    /\ site_links = NoSite
    /\ visited_urls = {}
    /\ scraped_data = <<>>
    /\ stacks = [t \in {1} |-> <<>>]
    /\ phase = "clean"
    /\ summary = NoSummary
    /\ page_i = 0
    /\ written = <<>>
    /\ markdown_text \in Texts
    /\ cleaned = markdown_text
    /\ applied = <<>>
    /\ claim_log = <<>>
    /\ fetch_log = <<>>
    /\ raised = {}
    /\ rejected = {}
    /\ on_cycle = {}
    /\ last_io = "none"

\* one of the two substitutions is applied to cleaned, each at most twice
Substitute(name) ==
    /\ phase = "clean"
    /\ Applications(name) < 2
    /\ cleaned' = Rule(name, cleaned)
    /\ applied' = Append(applied, name)
    /\ UNCHANGED <<site, site_links, visited_urls, scraped_data, stacks, phase,
                   summary, page_i, written, markdown_text, claim_log, fetch_log,
                   raised, rejected, on_cycle, last_io>>

NextClean ==
    \/ Substitute("newlines")
    \/ Substitute("spaces")

\* the run-collapsing substitutions of clean_content, applied to every text
\* of at most MaxText characters
SpecClean == InitClean /\ [][NextClean]_vars

(***************************************************************************)
(* The traversal of a fixed site: the fetcher returns for every page the   *)
(* page's own link list, every fetch succeeds and every page has more than *)
(* min_length characters.  The sites are all those of four pages in which  *)
(* the base page and /ar/a hold up to two links each, /ar/b up to one and  *)
(* /ar/c none, the links drawn from SiteHrefs.                             *)
(***************************************************************************)
SiteHrefs == {hA, hB, hC, hScript, hBad}

pageA == urljoin(base_url, hA)
pageB == urljoin(base_url, hB)
pageC == urljoin(base_url, hC)

ShortLists == {<<>>} \cup {<<h>> : h \in SiteHrefs}

LinkLists == ShortLists \cup {<<g, h>> : g, h \in SiteHrefs}

Sites ==
    {[page \in {base_url, pageA, pageB, pageC} |->
         CASE page = base_url -> root
           [] page = pageA -> a
           [] page = pageB -> b
           [] OTHER -> <<>>] :
     root \in LinkLists, a \in LinkLists, b \in ShortLists}

InitSite ==
    /\ site = {}
    /\ site_links \in Sites
    /\ visited_urls = {}
    /\ scraped_data = <<>>
    /\ stacks = [t \in {1} |-> <<Frame(base_url, 0)>>]
    /\ phase = "crawl"
    /\ summary = NoSummary
    /\ page_i = 0
    /\ written = <<>>
    /\ markdown_text = <<>>
    /\ cleaned = <<>>
    /\ applied = <<>>
    /\ claim_log = <<>>
    /\ fetch_log = <<>>
    /\ raised = {}
    /\ rejected = {}
    /\ on_cycle = {}
    /\ last_io = "none"

\* Next without the fetches that raise, fail or give too little content
NextSite ==
    \/ \E t \in Tasks : ReturnLimit(t)
    \/ \E t \in Tasks : ReturnSkip(t)
    \/ \E t \in Tasks : Claim(t)
    \/ \E t \in Tasks : Invoke(t)
    \/ \E t \in Tasks : FetchAccepted(t)
    \/ \E t \in Tasks : ExpandSkip(t)
    \/ \E t \in Tasks : ExpandRaises(t)
    \/ \E t \in Tasks : ExceptReturn(t)
    \/ \E t \in Tasks : ExpandSleep(t)
    \/ \E t \in Tasks : SleepDone(t)
    \/ \E t \in Tasks : ExpandEnd(t)
    \/ WriteJson
    \/ WritePage
    \/ Output

SpecSite == InitSite /\ [][NextSite]_vars

(***************************************************************************)
(* Properties.                                                             *)
(***************************************************************************)
\* how often url occurs in a log
Count(url, log) == Cardinality({i \in DOMAIN log : log[i].url = url})

HasRecord(url) == \E i \in DOMAIN scraped_data : scraped_data[i].url = url

\* C1: in every reachable state of a run with page cap max_pages, scraped_data
\* holds at most max_pages records.
C1_RecordsWithinPageCap == Len(scraped_data) <= max_pages

\* the cap is met: max_pages pages were accepted and the run has ended
C1_Witness == Len(scraped_data) = max_pages /\ phase = "done"

\* C2: a URL is added to visited_urls at most once, it is added before the
\* fetcher is invoked for it (every invocation follows its own insertion, in
\* the same order), and the fetcher is invoked at most once per URL, however
\* its fetches end.
C2_ClaimedOnceFetchedOnce ==
    /\ \A i, j \in DOMAIN claim_log :
         claim_log[i].url = claim_log[j].url => i = j
    /\ \A i, j \in DOMAIN fetch_log :
         fetch_log[i].url = fetch_log[j].url => i = j
    /\ Len(fetch_log) <= Len(claim_log)
    /\ \A i \in DOMAIN fetch_log : fetch_log[i] = claim_log[i]
    /\ \A i \in DOMAIN claim_log : claim_log[i].url \in visited_urls

\* a run that met a link back to a visited page, a raising fetch, a rejected
\* page and an accepted one
C2_Witness ==
    /\ phase = "done"
    /\ on_cycle # {} /\ raised # {} /\ rejected # {}
    /\ Len(fetch_log) = max_pages

\* C3: on every link graph, with cycles and self-links, the traversal started
\* at the base URL terminates (the fetcher and the sleep always return), and
\* every URL of a cycle the traversal closed was fetched exactly once.
C3_CycleSafeTermination ==
    /\ <>(phase = "done")
    /\ [](\A url \in on_cycle : Count(url, fetch_log) = 1)

\* a finished run that closed a cycle through two pages or more
C3_Witness == phase = "done" /\ Cardinality(on_cycle) >= 2

\* C4: no URL is fetched at a depth above max_depth, every frame lies at the
\* end of a chain of as many links from the root call as its depth says (so
\* the shortest discovery depth of a fetched URL is at most max_depth), and
\* every record of scraped_data has a depth between 0 and max_depth.
C4_DepthWithinCap ==
    /\ \A i \in DOMAIN fetch_log : fetch_log[i].depth \in 0..max_depth
    /\ \A i \in DOMAIN scraped_data : scraped_data[i].depth \in 0..max_depth
    /\ \A t \in Tasks : \A i \in DOMAIN stacks[t] :
         /\ stacks[t][i].depth = i - 1
         /\ stacks[t][i].pc # "call" => stacks[t][i].depth <= max_depth
         /\ i > 1 => /\ stacks[t][i - 1].pc = "await"
                     /\ stacks[t][i - 1].depth <= max_depth

\* a call one level below the cap is pending while pages are still allowed
C4_Witness ==
    \E t \in Tasks :
        /\ Running(t) /\ Top(t).pc = "call" /\ Top(t).depth = max_depth + 1
        /\ InScope(Top(t).url) /\ Top(t).url \notin visited_urls
        /\ Cardinality(visited_urls) < max_pages

\* a step in which crawler.arun raises
RaiseStep == raised' # raised

\* the raising visit is gone from its stack; every frame below it is as it
\* was, but for its caller, which is back in its link loop with the links it
\* has left
RaiseReturnsToCaller ==
    \E t \in Tasks :
        /\ Len(stacks'[t]) = Len(stacks[t]) - 1
        /\ \A i \in 1..(Len(stacks[t]) - 2) : stacks'[t][i] = stacks[t][i]
        /\ Len(stacks[t]) > 1 =>
             stacks'[t][Len(stacks[t]) - 1] =
                 [stacks[t][Len(stacks[t]) - 1] EXCEPT !.pc = "expand"]

\* C5: an exception of the fetcher is caught inside the visit it happened in:
\* no record is ever stored for that URL, the visit returns to its caller,
\* which goes on with its remaining links, nothing but the stack and the
\* fetch state changes, and the run reaches the output phase.
C5_FetchExceptionContained ==
    /\ [][RaiseStep => /\ RaiseReturnsToCaller
                       /\ scraped_data' = scraped_data
                       /\ visited_urls' = visited_urls]_vars
    /\ [](\A url \in raised : ~HasRecord(url))
    /\ (raised # {}) ~> (phase = "done")

\* a fetch raised, the caller went on to fetch a later link of the same page,
\* and the run reached its end
C5_Witness ==
    /\ phase = "done"
    /\ \E i, j \in DOMAIN fetch_log :
         /\ i < j
         /\ fetch_log[i].url \in raised
         /\ fetch_log[j].parent = fetch_log[i].parent
         /\ fetch_log[j].depth = fetch_log[i].depth

\* C6: links are expanded from accepted pages only: a URL whose fetch failed,
\* raised or gave content of at most min_length characters has no record and
\* no link loop, every record holds more than min_length characters, and
\* every URL fetched below the root was called from the link loop of a page
\* that has a record.
C6_ExpandOnlyAccepted ==
    /\ \A url \in rejected \cup raised : ~HasRecord(url)
    /\ \A i \in DOMAIN scraped_data : scraped_data[i].content > min_length
    /\ \A t \in Tasks : \A i \in DOMAIN stacks[t] :
         /\ stacks[t][i].pc \in {"expand", "sleep", "await"} =>
              /\ HasRecord(stacks[t][i].url)
              /\ stacks[t][i].url \notin rejected \cup raised
         /\ i > 1 => HasRecord(stacks[t][i - 1].url)
    /\ \A i \in DOMAIN fetch_log :
         fetch_log[i].depth > 0 => HasRecord(fetch_log[i].parent)

\* a page was rejected, and the run went on and accepted a page after it
C6_Witness ==
    /\ phase = "done"
    /\ \E i, j \in DOMAIN fetch_log :
         /\ i < j
         /\ fetch_log[i].url \in rejected
         /\ HasRecord(fetch_log[j].url)

\* C7: every URL of visited_urls, every fetched URL and every URL with a
\* record contains the domain and the path marker: a URL that fails the test
\* of line 22 is never added, fetched or recorded.
C7_VisitedInScope ==
    /\ \A url \in visited_urls : ContainsDomain(url) /\ ContainsAr(url)
    /\ \A i \in DOMAIN fetch_log :
         ContainsDomain(fetch_log[i].url) /\ ContainsAr(fetch_log[i].url)
    /\ \A i \in DOMAIN scraped_data :
         ContainsDomain(scraped_data[i].url) /\ ContainsAr(scraped_data[i].url)

\* a visit of a URL outside the scope is at its guards, with neither limit
\* in its way
C7_Witness ==
    \E t \in Tasks :
        /\ Running(t) /\ Top(t).pc = "call"
        /\ ~(ContainsDomain(Top(t).url) /\ ContainsAr(Top(t).url))
        /\ Top(t).depth <= max_depth
        /\ Cardinality(visited_urls) < max_pages

\* the root calls whose guards have run
Started == {t \in Tasks : stacks[t] # <<Frame(base_url, 0)>>}

\* the tasks that inserted url into visited_urls
Claimers(url) ==
    {t \in Tasks : \E i \in DOMAIN claim_log :
                      claim_log[i].url = url /\ claim_log[i].task = t}

\* C8: of NumTasks concurrent calls of crawl_page with the base URL, as soon
\* as one has run its guards exactly one has inserted the URL, only that one
\* invokes the fetcher (once), and every other call that has run has returned
\* without fetching anything.
C8_ExactlyOneClaims ==
    /\ Count(base_url, claim_log) <= 1
    /\ Count(base_url, fetch_log) <= 1
    /\ Started # {} => Cardinality(Claimers(base_url)) = 1
    /\ \A t \in Started \ Claimers(base_url) :
         /\ stacks[t] = <<>>
         /\ \A i \in DOMAIN fetch_log : fetch_log[i].task # t
    /\ \A i \in DOMAIN fetch_log :
         fetch_log[i].url = base_url => fetch_log[i].task \in Claimers(base_url)

\* all NumTasks calls have run their guards and the fetcher was invoked
C8_Witness ==
    /\ Cardinality(Tasks) = NumTasks /\ NumTasks > 1
    /\ Started = Tasks
    /\ Count(base_url, fetch_log) = 1

\* C9: fetches are serial with a gap: an invocation of the fetcher starts only
\* when no fetch is in progress, and, but for the first, only after a sleep
\* has completed since the last fetch ended; at most one frame awaits arun.
C9_SerialFetchesWithGap ==
    [][Len(fetch_log') > Len(fetch_log) =>
         /\ last_io \in {"none", "slept"}
         /\ last_io = "none" <=> fetch_log = <<>>
         /\ \A t \in Tasks : \A i \in DOMAIN stacks[t] :
              stacks[t][i].pc # "fetch"]_vars

\* a second fetch is in progress
C9_Witness == Len(fetch_log) >= 2 /\ last_io = "fetching"

RECURSIVE CharactersUpTo(_)
\* the characters of the first k records, counted from the last one back
CharactersUpTo(k) ==
    IF k = 0 THEN 0
    ELSE CharactersUpTo(k - 1) + scraped_data[k].content

\* C10: the summary of a finished run has total_pages equal to the number of
\* records, urls equal to the record URLs in insertion order, and
\* total_characters equal to the sum of all content lengths, for every record
\* list, the empty one included.
C10_SummaryOfRecords ==
    phase = "done" =>
        /\ summary.total_pages = Len(scraped_data)
        /\ Len(summary.urls) = Len(scraped_data)
        /\ \A i \in DOMAIN scraped_data : summary.urls[i] = scraped_data[i].url
        /\ summary.total_characters = CharactersUpTo(Len(scraped_data))

\* three records of 120, 5000 and 30 characters, summarised as 5150
C10_Witness ==
    /\ phase = "done"
    /\ Len(scraped_data) = 3
    /\ scraped_data[1].content = 120 /\ scraped_data[2].content = 5000
    /\ scraped_data[3].content = 30
    /\ scraped_data[1].url # scraped_data[2].url
    /\ summary.total_characters = 5150
    /\ summary.urls = <<scraped_data[1].url, scraped_data[2].url,
                        scraped_data[3].url>>

\* the files a finished run has written: the dump, one file per record in
\* list order, the summary
ArtifactsOf(records) ==
    <<JsonFile>> \o [k \in DOMAIN records |-> PageFile(k - 1)] \o <<SummaryFile>>

\* C11: no output file is written while the traversal is running: every write
\* happens with the root visit returned and every stack empty, a write changes
\* nothing of the crawl, nothing of the crawl changes once a file is written,
\* no file is written twice, and a finished run has written the dump, one
\* file per record and the summary, each exactly once.
C11_WrittenOnceAfterTraversal ==
    /\ [](written # <<>> => \A t \in Tasks : stacks[t] = <<>>)
    /\ [](\A k, l \in DOMAIN written : written[k] = written[l] => k = l)
    /\ [](phase = "crawl" <=> written = <<>>)
    /\ [](phase = "done" => written = ArtifactsOf(scraped_data))
    /\ [][written' # written \/ written # <<>> =>
            /\ \A t \in Tasks : stacks[t] = <<>>
            /\ <<stacks, scraped_data, visited_urls, fetch_log>>' =
                   <<stacks, scraped_data, visited_urls, fetch_log>>
            /\ Len(written') <= Len(written) + 1]_vars

\* a finished run that fetched max_pages pages, one of them in vain, and
\* wrote a file for each of its records between the dump and the summary
C11_Witness ==
    /\ phase = "done"
    /\ Len(fetch_log) = max_pages /\ rejected # {}
    /\ Len(scraped_data) = max_pages - 1
    /\ Len(written) = max_pages + 1
    /\ written[2] = PageFile(0) /\ written[max_pages] = PageFile(max_pages - 2)

\* the scope filter as the claim states it: the domain in the URL's host
HostInScope(url) == HasDomain(url.host) /\ ContainsAr(url)

\* C12: the scope filter lets a visit pass exactly when the URL's host
\* contains the domain and the URL contains the path marker, and no URL whose
\* host lacks the domain is ever added to visited_urls or fetched, wherever
\* else in the URL the domain occurs.
C12_ScopeByHost ==
    /\ \A t \in Tasks : \A k \in DOMAIN stacks[t] :
         stacks[t][k].pc = "call" =>
             (InScope(stacks[t][k].url) <=> HostInScope(stacks[t][k].url))
    /\ \A url \in visited_urls : HasDomain(url.host)
    /\ \A k \in DOMAIN fetch_log : HasDomain(fetch_log[k].url.host)

\* every frame of every stack satisfies P
AllFrames(P(_)) == \A t \in Tasks : \A k \in DOMAIN stacks[t] : P(stacks[t][k])

\* a frame whose link loop was left through the handler of line 67
InHandler(frame) == frame.pc = "except"

\* a frame visiting a URL that is no http(s) URL gets no further than its guards
GuardsOnly(frame) == frame.url.scheme # "https" => frame.pc = "call"

\* C13: a malformed href of an accepted page (empty, of another scheme, or one
\* urljoin cannot resolve) is skipped: nothing but http(s) URLs is ever added,
\* fetched or recorded, and no link loop is ever left through the exception
\* handler, so that the links after the malformed one are still read.
C13_MalformedHrefSkipped ==
    /\ \A url \in visited_urls : url.scheme = "https"
    /\ \A k \in DOMAIN fetch_log : fetch_log[k].url.scheme = "https"
    /\ \A k \in DOMAIN scraped_data : scraped_data[k].url.scheme = "https"
    /\ AllFrames(GuardsOnly)
    /\ ~\E t \in Tasks : \E k \in DOMAIN stacks[t] : InHandler(stacks[t][k])

\* text holds a run of at least `least` characters ch
HasRun(text, ch, least) == \E k \in DOMAIN text : RunLength(text, k, ch) >= least

\* C14: the newline rule and the space rule of clean_content are idempotent:
\* on every text, applying a rule to its own result changes nothing, and the
\* result of the newline rule holds no run of 3 newlines, that of the space
\* rule no run of 2 spaces.
C14_CollapseIdempotent ==
    /\ [](\A name \in Rules :
            Rule(name, Rule(name, markdown_text)) = Rule(name, markdown_text))
    /\ [](applied # <<>> /\ applied[Len(applied)] = "newlines" =>
            ~HasRun(cleaned, "\n", 3))
    /\ [](applied # <<>> /\ applied[Len(applied)] = "spaces" =>
            ~HasRun(cleaned, " ", 2))
    /\ [][\A name \in Rules :
            /\ applied # <<>> /\ applied[Len(applied)] = name
            /\ applied' = Append(applied, name)
            => cleaned' = cleaned]_vars

\* a text with a run of three newlines and a run of two spaces, each rule
\* applied to it twice, the first application of each having shortened it
C14_Witness ==
    /\ applied = <<"newlines", "newlines", "spaces", "spaces">>
    /\ HasRun(markdown_text, "\n", 3) /\ HasRun(markdown_text, " ", 2)
    /\ Len(CollapseNewlines(markdown_text)) < Len(markdown_text)
    /\ Len(cleaned) < Len(CollapseNewlines(markdown_text))

\* a step that adds a URL to visited_urls, and one that invokes the fetcher
ClaimStep == visited_urls' # visited_urls

InvokeStep == Len(fetch_log') > Len(fetch_log)

\* C15: visited_urls never holds more than max_pages URLs and the fetcher is
\* invoked at most max_pages times; a URL whose fetch raised, failed or gave
\* too little content stays in visited_urls and so counts toward the cap; once
\* visited_urls holds max_pages URLs no URL is added, and the only fetch that
\* can still start is the one of the URL added last.
C15_PageCapOnVisited ==
    /\ [](Cardinality(visited_urls) <= max_pages)
    /\ [](Len(fetch_log) <= max_pages)
    /\ [](raised \cup rejected \subseteq visited_urls)
    /\ [][ClaimStep => Cardinality(visited_urls) < max_pages]_vars
    /\ [][InvokeStep =>
            /\ Len(fetch_log) < Cardinality(visited_urls)
            /\ fetch_log'[Len(fetch_log')].url \in visited_urls
            /\ fetch_log'[Len(fetch_log')].url =
                   claim_log[Len(claim_log)].url]_vars
    /\ [][Cardinality(visited_urls) = max_pages /\ Len(fetch_log) = max_pages
            => visited_urls' = visited_urls /\ fetch_log' = fetch_log]_vars

\* the cap is met by two recorded pages, a rejected one and one whose fetch
\* raised, and a visit of a fifth URL that passes the filter is at its guards
C15_Witness ==
    /\ Cardinality(visited_urls) = max_pages /\ Len(fetch_log) = max_pages
    /\ rejected # {} /\ raised # {}
    /\ Len(scraped_data) = max_pages - 2
    /\ \E t \in Tasks :
         /\ Running(t) /\ Top(t).pc = "call" /\ Top(t).depth <= max_depth
         /\ InScope(Top(t).url) /\ Top(t).url \notin visited_urls

\* a step in which the visit of task t returns at one of the guards of lines
\* 15-23: its frame is popped before anything but the guards has run
GuardReturn(t) ==
    /\ Running(t) /\ Top(t).pc = "call"
    /\ stacks'[t] = Return(stacks[t])

\* a visit of url at depth would pass every guard in the next state
ClaimableNext(url, depth) ==
    /\ ~LimitReached(depth, visited_urls')
    /\ ~AlreadyVisited(url, visited_urls')
    /\ InScope(url)

RecordIndex(url) ==
    IF HasRecord(url)
    THEN CHOOSE k \in DOMAIN scraped_data : scraped_data[k].url = url
    ELSE 0

\* C17: the record of the base URL has depth 0 and no other record has; every
\* record carries the depth its URL was fetched at; and every record of a
\* depth d > 0 belongs to a URL that was visited from the link loop of a page
\* whose record has depth d - 1 and stands earlier in scraped_data.
C17_DepthFollowsDiscovery ==
    /\ \A k \in DOMAIN scraped_data :
         scraped_data[k].url = base_url <=> scraped_data[k].depth = 0
    /\ \A k, l \in DOMAIN scraped_data :
         scraped_data[k].url = scraped_data[l].url => k = l
    /\ \A k \in DOMAIN scraped_data :
         \E f \in DOMAIN fetch_log :
            /\ fetch_log[f].url = scraped_data[k].url
            /\ fetch_log[f].depth = scraped_data[k].depth
            /\ scraped_data[k].depth > 0 =>
                 /\ RecordIndex(fetch_log[f].parent) \in 1..(k - 1)
                 /\ scraped_data[RecordIndex(fetch_log[f].parent)].depth =
                        scraped_data[k].depth - 1

\* a finished run whose records have the depths 0, 1, 2, 1 in this order: the
\* page of depth 2 stands before the second page of depth 1
C17_Witness ==
    /\ phase = "done"
    /\ Len(scraped_data) = 4
    /\ scraped_data[1].depth = 0 /\ scraped_data[2].depth = 1
    /\ scraped_data[3].depth = 2 /\ scraped_data[4].depth = 1
    /\ scraped_data[1].url = base_url

\* the links of page the loop of line 53 gets to read: all of them, or those
\* before the first href urljoin raises on
LinksRead(page) ==
    LET list == site_links[page]
        bad == {k \in DOMAIN list : urljoin_raises(list[k])}
    IN  {k \in DOMAIN list : \A b \in bad : k < b}

\* the URLs page links to, and those among them the loop reaches
LinkTargets(page) ==
    {urljoin(base_url, site_links[page][k]) :
        k \in {l \in DOMAIN site_links[page] :
                  /\ ~urljoin_raises(site_links[page][l])
                  /\ site_links[page][l].kind # "empty"}}

ReadTargets(page) ==
    {urljoin(base_url, site_links[page][k]) :
        k \in {l \in LinksRead(page) : site_links[page][l].kind # "empty"}}

RECURSIVE ReachableWithin(_)
\* the URLs at the end of a chain of at most d links from the base URL
ReachableWithin(d) ==
    IF d = 0 THEN {base_url}
    ELSE LET near == ReachableWithin(d - 1)
         IN  near \cup UNION {LinkTargets(page) :
                                 page \in {u \in near : Listed(u)}}

\* the run is over, the page cap was not reached, and no fetch raised, failed
\* or gave too little content
CompleteRun ==
    /\ phase = "done"
    /\ Cardinality(visited_urls) < max_pages
    /\ raised = {} /\ rejected = {}

\* no page of the site holds a href urljoin raises on
Resolvable ==
    \A page \in DOMAIN site_links :
        \A k \in DOMAIN site_links[page] : ~urljoin_raises(site_links[page][k])

\* C18 as stated: at the end of a run without failed fetches and short of the
\* page cap, every URL that passes the scope filter and lies at the end of a
\* chain of at most max_depth links from the base URL has a record.  Stated
\* for the sites all of whose hrefs urljoin resolves.
C18_CoverageWithinDepth ==
    CompleteRun /\ Resolvable =>
        \A url \in ReachableWithin(max_depth) : InScope(url) => HasRecord(url)

\* C18, amended: at the end of such a run, every URL that passes the scope
\* filter and is the target of a link read by the link loop of a page
\* recorded at a depth below max_depth has a record, whatever the site; the
\* depth is the one of the traversal's own path to the page.
C18_CoverageAlongTraversal ==
    CompleteRun =>
        /\ HasRecord(base_url)
        /\ \A k \in DOMAIN scraped_data :
             scraped_data[k].depth < max_depth /\ Listed(scraped_data[k].url) =>
                 \A url \in ReadTargets(scraped_data[k].url) :
                     InScope(url) => HasRecord(url)

\* a finished run short of the page cap that recorded /ar/b at depth
\* max_depth through /ar/a, on a site where /ar/b links on to /ar/c
C18_Witness ==
    /\ CompleteRun
    /\ Len(scraped_data) = max_pages - 1
    /\ scraped_data[max_pages - 1].depth = max_depth
    /\ scraped_data[max_pages - 1].url = pageB
    /\ pageC \in LinkTargets(pageB)
    /\ ~HasRecord(pageC)

====
